---- MODULE Spec2Model ----
(***************************************************************************)
(* The giveaway lifecycle engine of better-discord-giveaways               *)
(* (src/src/GiveawayManager.ts) as a state machine.                        *)
(*                                                                         *)
(* Every async method is a task that advances one await at a time: a step  *)
(* is the resolution of the awaited call together with the synchronous     *)
(* code that follows it up to the next await.  Tasks of different calls    *)
(* interleave freely at these points, as they do on the event loop.        *)
(* The storage adapter is the BaseAdapter contract (save, get, getAll,     *)
(* edit by id); each adapter call takes effect in the step that resolves   *)
(* it.                                                                     *)
(*                                                                         *)
(* Some parts are followed by themselves, each under its own               *)
(* specification: the winner draw (DrawSpec), the collector's handler      *)
(* with checkRequirements (EntrySpec), that handler next to the call of    *)
(* end and an edit (GateSpec), JSONAdapter with its file under callers     *)
(* that await every call (StorageSpec) and under callers that do not       *)
(* (RaceSpec), and SequelizeAdapter with its table (SqlSpec).              *)
(***************************************************************************)
EXTENDS Integers, Sequences, FiniteSets, Bags, TLC

\* ---------------------------------------------------------------- bounds

MaxIds == 1
MaxTime == 1
MaxCalls == 2
MaxKeys == 2
MaxAdapterCalls == 1

\* Node.js timers: a delay above 2^31 - 1 ms is replaced by 1 ms.
TIMEOUT_MAX == 2147483647

\* The clock counts units of 2^30 ms (about 12.4 days), so that a delay of two units
\* is one the timer cannot hold.
UnitMs == 1024 * 1024 * 1024

Ids == 1..MaxIds
Prizes == {"nitro", "gift"}
\* options.duration, in units: one the timer can hold and one it cannot.
Durations == {1, 2}
None == [absent |-> TRUE]

VARIABLES
  now,          \* Date.now()
  store,        \* the adapter's records: id -> GiveawayData or None
  announce,     \* the announcement message of each giveaway: what it shows
  channelOk,    \* client.channels.fetch resolves to a text-based channel
  timers,       \* per id, the due times of the armed setTimeout timers, in arming order
  timeouts,     \* this.timeouts: per id "absent", or the state of the handle it holds
  liveCollectors, \* per id, the number of reaction collectors that are listening
  collectors,   \* this.collectors: per id, whether the map holds a collector
  tasks,        \* the async calls in flight (a bag of records)
  emitted,      \* the event the last step published through events.emit, or None
  finals,       \* per id, how many giveawayEnded or giveawayRerolled events were published
  drawn,        \* per id, how many times pickWinners ran for it
  calls,        \* how many API calls the operator has made
  raised        \* the error the last step threw out of its async method, or NoError

\* The winner draw of end() (lines 252-284), taken by itself.
VARIABLES
  reactors,     \* message.reactions.cache.get(this.reaction): its users, if it is found
  botsCanWin,   \* this.botsCanWin
  winnerCount,  \* giveaway.winnerCount
  entries,      \* end's local `entries`
  winners,      \* end's local `winners`
  announced,    \* the winner list that giveawayEnded / giveawayRerolled carried
  drawPc,       \* where end() is: "fetch", "pick", "emit", "save" or "done"
  mention,      \* what the edited announcement shows after "winners:"
  endedSaved    \* adapter.save has stored the record with ended = true

\* The collector's "collect" handler (lines 473-506) and checkRequirements, taken by
\* themselves.
VARIABLES
  requirements, \* giveaway.requirements of the collector's giveaway
  entrant,      \* the reacting user: createdTimestamp, joinedTimestamp, roles
  removeOk,     \* reaction.users.remove resolves (the bot may remove reactions)
  reactions,    \* how many entry reactions the collector has collected
  handlers,     \* the handler calls in flight (a bag of records)
  verdict,      \* per reaction, what checkRequirements returned, once it has
  customCalls,  \* per reaction, how many times requirements.custom was called
  published,    \* per reaction, the events emitted for it, in order
  removed,      \* per reaction, whether the user's reaction was taken off the message
  notices,      \* per reaction, how many rejection notices were sent to the channel
  unhandled,    \* the reactions whose handler call ended in a rejected promise
  exited        \* the process has terminated on an unhandled rejection

\* One giveaway from the creation of its collector to the end of end(): the collector,
\* the record in storage, the call of end and an edit, around the handler above.
VARIABLES
  collecting,   \* the reaction collector is listening (created and not stopped)
  unheard,      \* how many entry reactions were added while no collector listened
  persisted,    \* the giveaway's record in storage: ended and requirements
  closing,      \* where the call of end(giveawayId) is
  late,         \* the reactions collected after end fetched the reaction's users
  caught,       \* the reactions whose custom predicate was running when end stopped
                \* the collector
  edited,       \* an edit of the requirements has been stored
  afterEdit,    \* the reactions collected after that edit
  carried       \* per reaction, the requirements of the record its events carry

\* JSONAdapter (src/src/storage/JSONAdapter.ts) and the callers of its methods, taken
\* by themselves.
VARIABLES
  file,         \* the JSON file at filePath: absent, or its text
  cache,        \* this.cache of the adapter instance in use
  adapterCalls, \* the adapter method calls in flight (a bag of records)
  returned,     \* what the get or getAll call that has just finished returned
  saved,        \* per giveawayId, the record of the last save or delete that finished
  overlapped,   \* two adapter calls have been in flight together
  restarted,    \* a new adapter instance was made and nothing was written since
  lanes         \* how many adapter calls the callers have in flight at most

\* SequelizeAdapter (src/src/storage/SequelizeAdapter.ts) with the giveaways table of
\* the model, for the record of one giveaway.
VARIABLES
  dialect,      \* how the database of the Sequelize instance keeps an INTEGER column
  clock,        \* Date.now(), in units of UnitMs
  sqlData,      \* the GiveawayData the engine holds: endAt and ended
  row,          \* the row of the giveaway in the table, if there is one
  readBack,     \* what the last get returned
  rejected,     \* the last upsert was rejected by the database
  sqlPc         \* "idle" before start, "upsert" while save runs, else "ready"

\* The state of the lifecycle engine.
lifecycleVars == <<now, store, announce, channelOk, timers, timeouts, liveCollectors,
                   collectors, tasks, emitted, finals, drawn, calls, raised>>

drawVars == <<reactors, botsCanWin, winnerCount, entries, winners, announced, drawPc,
              mention, endedSaved>>

entryVars == <<requirements, entrant, removeOk, reactions, handlers, verdict,
              customCalls, published, removed, notices, unhandled, exited>>

storageVars == <<file, cache, adapterCalls, returned, saved, overlapped, restarted,
                 lanes>>

gateVars == <<collecting, unheard, persisted, closing, late, caught, edited, afterEdit,
             carried>>

sqlVars == <<dialect, clock, sqlData, row, readBack, rejected, sqlPc>>

\* The state of the parts that are studied by themselves.
componentVars == <<drawVars, entryVars, storageVars, gateVars, sqlVars>>

vars == <<lifecycleVars, componentVars>>

\* The winner draw at rest, while another part runs.
DrawIdle ==
  /\ reactors = [found |-> FALSE] /\ botsCanWin = FALSE /\ winnerCount = 1
  /\ entries = <<>> /\ winners = <<>> /\ announced = <<>> /\ drawPc = "done"
  /\ mention = "" /\ endedSaved = FALSE

\* An optional field: left out, or set to a value.
Unset == [set |-> FALSE]
Opt(v) == [set |-> TRUE, value |-> v]

\* checkRequirements has not returned.
NoVerdict == [done |-> FALSE]

\* Entry collection at rest, while another part runs.
EntryIdle ==
  /\ requirements = [given |-> FALSE]
  /\ entrant = [created |-> 0, joined |-> Unset, roles |-> {}]
  /\ removeOk = TRUE
  /\ reactions = 0
  /\ handlers = EmptyBag
  /\ verdict = <<>> /\ customCalls = <<>> /\ published = <<>>
  /\ removed = <<>> /\ notices = <<>>
  /\ unhandled = {} /\ exited = FALSE

\* MaxKeys giveawayIds are enough for one record to be written next to another.
Keys == 1..MaxKeys

\* fs.readFileSync fails with ENOENT: there is no file.
NoFile == [exists |-> FALSE]

\* The last step was not the return of a get or getAll call.
NoAnswer == [op |-> "none"]

\* The JSON adapter at rest, while another part runs.
StorageIdle ==
  /\ file = NoFile /\ cache = <<>> /\ adapterCalls = EmptyBag /\ returned = NoAnswer
  /\ saved = [k \in Keys |-> None] /\ overlapped = FALSE /\ restarted = FALSE
  /\ lanes = 0

\* The table of the Sequelize adapter at rest, while another part runs.
SqlIdle ==
  /\ dialect = "wide" /\ clock = 0 /\ sqlData = None /\ row = None /\ readBack = None
  /\ rejected = FALSE /\ sqlPc = "idle"

\* No collector, no call of end and no edit, while another part runs.
GateIdle ==
  /\ collecting = FALSE /\ unheard = 0
  /\ persisted = [requirements |-> [given |-> FALSE], ended |-> FALSE]
  /\ closing = "none" /\ late = {} /\ caught = {}
  /\ edited = FALSE /\ afterEdit = {} /\ carried = <<>>

\* ------------------------------------------------------------- data

\* GiveawayData (src/src/types/index.ts).  giveawayId is the key under which the record
\* is stored and channelId names the one channel of the model; prize stands for the
\* three fields that start and edit copy from the options together (prize, winnerCount,
\* requirements).
GiveawayData(messageId, endAt, prize, ended) ==
  [messageId |-> messageId, endAt |-> endAt, prize |-> prize, ended |-> ended]

\* message.id of the announcement posted for giveaway id
MessageId(id) == [message |-> id]

\* An async method that returns, or has not finished, throws nothing.
NoError == "no error"
\* The errors the methods throw.
ChannelError == "Channel not found or not text-based"
NotFoundError == "No giveaway found or already ended!"
\* What a listener threw inside events.emit.
ListenerError == "listener error"

\* What an async method rejects with when events.emit threw.
Rethrown(threw) == IF threw THEN ListenerError ELSE NoError

\* A task: one invocation of an async method.  g is the method's local `giveaway`,
\* prize the options it was called with, timed whether a countdown started it.
Task(kind, id, pc, g, rerolled, prize, timed) ==
  [kind |-> kind, id |-> id, pc |-> pc, g |-> g, rerolled |-> rerolled,
   prize |-> prize, timed |-> timed]

Spawn(ts) == tasks (+) SetToBag(ts)
Finish(t) == tasks (-) SetToBag({t})
Become(t, u) == (tasks (-) SetToBag({t})) (+) SetToBag({u})

Running == BagToSet(tasks)

\* adapter.get(id)
AdapterGet(id) == store[id]

\* adapter.save(data): insert or update by id
AdapterSave(id, data) == [store EXCEPT ![id] = data]

\* adapter.edit(id, data): replace the record stored under id
AdapterEdit(id, data) == [store EXCEPT ![id] = data]

\* events.emit(kind, giveaway, ...): the listeners run inside the call, and one that
\* throws makes emit throw.
Emit(kind, id, g, threw) == [kind |-> kind, id |-> id, g |-> g, threw |-> threw]

\* ------------------------------------------------------- timers, collectors

\* setTimeout(cb, delay) of the runtime: the time at which the timer becomes due.
\* A delay above TIMEOUT_MAX ms does not fit the timer's 32-bit field and is set to
\* 1 ms, which is no time at all on this clock (delay units exceed TIMEOUT_MAX ms
\* exactly when there are more of them than TIMEOUT_MAX \div UnitMs).
SetTimeoutDue(delay) == now + (IF delay > TIMEOUT_MAX \div UnitMs THEN 0 ELSE delay)

\* setTimeoutForGiveaway, line 428
MsUntilEnd(g) == g.endAt - now

\* setTimeoutForGiveaway, lines 429-432: a giveaway that is due is ended at once
EndsAtOnce(g) == MsUntilEnd(g) <= 0

\* A call of this.end(id, false) from the countdown: the task it starts.
CountdownEnd(id) == Task("end", id, "get", None, FALSE, "-", TRUE)

\* setTimeoutForGiveaway: the timers after the call
TimersAfterSet(tm, id, g) ==
  IF EndsAtOnce(g) THEN tm
  ELSE [tm EXCEPT ![id] = Append(@, SetTimeoutDue(MsUntilEnd(g)))]

\* setTimeoutForGiveaway: this.timeouts after the call (the new handle replaces the old)
TimeoutsAfterSet(to, id, g) ==
  IF EndsAtOnce(g) THEN to ELSE [to EXCEPT ![id] = "armed"]

\* setTimeoutForGiveaway: the end() it calls when the giveaway is already due
EndTasksAfterSet(id, g) ==
  IF EndsAtOnce(g) THEN {CountdownEnd(id)} ELSE {}

\* clearTimeoutForGiveaway, lines 442-446: clearTimeout on the handle of the map. The
\* handle is that of the timer armed last; it stops that timer if it has not fired.
TimersAfterClear(id) ==
  IF timeouts[id] = "armed"
  THEN [timers EXCEPT ![id] = SubSeq(@, 1, Len(@) - 1)]
  ELSE timers

TimeoutsAfterClear(id) == [timeouts EXCEPT ![id] = "absent"]

\* clearTimeoutForGiveaway, lines 449-453: stop the collector of the map
LiveCollectorsAfterClear(id) ==
  IF collectors[id] THEN [liveCollectors EXCEPT ![id] = @ - 1] ELSE liveCollectors

CollectorsAfterClear(id) == [collectors EXCEPT ![id] = FALSE]

\* A call of setReactionCollector(giveaway): the task it starts (it is not awaited).
CollectorSetup(id, g) == Task("collector", id, "setup", g, FALSE, "-", FALSE)

\* generateId(): Math.random() picks a point of the id space; neither the store nor
\* the calls in flight are consulted.
GenerateId(space) == space

\* The id is one that no stored record and no giveaway being started has.  The
\* lifecycle follows the calls of start whose id is unused; what a repeated id does to
\* the store is followed in StorageSpec.
Unused(i) == store[i] = None /\ \A t \in Running : ~(t.kind = "start" /\ t.id = i)

\* The guard without its test of the ended flag.
NotFound(g) == g = None

\* end and reroll, lines 244 and 414; edit, line 326
NotFoundOrEnded(g) == g = None \/ g.ended

\* ----------------------------------------------------------------- Init

\* The records a previous run of the process may have left in storage.
PersistedRecords(id) ==
  {None} \cup {GiveawayData(MessageId(id), e, "nitro", FALSE) : e \in 0..1}
         \cup {GiveawayData(MessageId(id), 0, "nitro", TRUE)}

\* What storage may hold when the process starts.
PersistedStores ==
  {s \in [Ids -> UNION {PersistedRecords(i) : i \in Ids}] :
     \A i \in Ids : s[i] \in PersistedRecords(i)}

Shown(prize, ended) == [prize |-> prize, ended |-> ended]

\* The constructor: empty maps, and restoreTimeouts() called without await.
RestoreTask == Task("restore", 0, "getAll", None, FALSE, "-", FALSE)

Init ==
  /\ now = 0
  /\ store \in PersistedStores
  /\ announce = [i \in Ids |-> IF store[i] = None THEN None
                                ELSE Shown(store[i].prize, store[i].ended)]
  /\ channelOk \in BOOLEAN
  /\ timers = [i \in Ids |-> <<>>]
  /\ timeouts = [i \in Ids |-> "absent"]
  /\ liveCollectors = [i \in Ids |-> 0]
  /\ collectors = [i \in Ids |-> FALSE]
  /\ tasks = SetToBag({RestoreTask})
  /\ emitted = None
  /\ finals = [i \in Ids |-> 0]
  /\ drawn = [i \in Ids |-> 0]
  /\ calls = 0
  /\ raised = NoError
  /\ DrawIdle
  /\ EntryIdle
  /\ StorageIdle
  /\ GateIdle
  /\ SqlIdle

\* ------------------------------------------------------------ API calls

\* A step that publishes no event.
Quiet == emitted' = None /\ UNCHANGED finals

\* A call by the operator: the method runs up to its first await and the task is in
\* flight.
Call(task) ==
  /\ calls < MaxCalls
  /\ calls' = calls + 1
  /\ tasks' = Spawn({task})
  /\ Quiet
  /\ raised' = NoError
  /\ UNCHANGED <<now, store, announce, channelOk, timers, timeouts, liveCollectors,
                 collectors, drawn>>
  /\ UNCHANGED componentVars

\* A start that takes the time of the call for the end time.
StartTaskEndsNow(id, prize, duration) ==
  Task("start", id, "post", GiveawayData(None, now, prize, FALSE),
       FALSE, prize, FALSE) @@ [calledAt |-> now, duration |-> duration]

\* The task of a start(options) call: besides the fields of every task it keeps the
\* time of the call and options.duration.
StartTask(id, prize, duration) ==
  Task("start", id, "post", GiveawayData(None, now + duration, prize, FALSE),
       FALSE, prize, FALSE) @@ [calledAt |-> now, duration |-> duration]

\* start(options), lines 188-200
start(prize, duration) ==
  \E id \in GenerateId(Ids) : Unused(id) /\ Call(StartTask(id, prize, duration))

\* end(giveawayId, rerolled), line 243
end(id, rerolled) ==
  /\ id \in Ids
  /\ Call(Task("end", id, "get", None, rerolled, "-", FALSE))

\* reroll(giveawayId), line 413
reroll(id) ==
  /\ id \in Ids
  /\ Call(Task("reroll", id, "get", None, TRUE, "-", FALSE))

\* edit(giveawayId, options), line 325
edit(id, prize) ==
  /\ id \in Ids
  /\ Call(Task("edit", id, "get", None, FALSE, prize, FALSE))

\* restoreTimeouts(), line 381
restoreTimeouts ==
  /\ RestoreTask.kind = "restore"
  /\ Call(RestoreTask)

\* ------------------------------------------------------------ start

\* A start that posts without testing the channel it fetched.
startPostUnchecked(t) ==
  /\ t.kind = "start" /\ t.pc = "post"
  /\ announce' = [announce EXCEPT ![t.id] = Shown(t.g.prize, FALSE)]
  /\ tasks' = Become(t, [t EXCEPT !.pc = "save", !.g.messageId = MessageId(t.id)])
  /\ raised' = NoError
  /\ Quiet
  /\ UNCHANGED <<now, store, channelOk, timers, timeouts, liveCollectors, collectors,
                 drawn, calls>>
  /\ UNCHANGED componentVars

\* start, lines 200-211: the channel is fetched, the announcement sent and reacted to.
startPost(t) ==
  /\ t.kind = "start" /\ t.pc = "post"
  /\ IF ~channelOk
     THEN /\ tasks' = Finish(t)
          /\ raised' = ChannelError
          /\ UNCHANGED announce
     ELSE /\ announce' = [announce EXCEPT ![t.id] = Shown(t.g.prize, FALSE)]
          /\ tasks' = Become(t, [t EXCEPT !.pc = "save", !.g.messageId = MessageId(t.id)])
          /\ raised' = NoError
  /\ Quiet
  /\ UNCHANGED <<now, store, channelOk, timers, timeouts, liveCollectors, collectors,
                 drawn, calls>>
  /\ UNCHANGED componentVars

\* start, lines 214-216: what follows events.emit runs only if emit did not throw
CollectorAfterStarted(threw, id, g) == IF threw THEN {} ELSE {CollectorSetup(id, g)}

\* start, lines 211-218: adapter.save resolves; the countdown is armed, giveawayStarted
\* is emitted and the collector is set up.
startSave(t) ==
  /\ t.kind = "start" /\ t.pc = "save"
  /\ store' = AdapterSave(t.id, t.g)
  /\ timers' = TimersAfterSet(timers, t.id, t.g)
  /\ timeouts' = TimeoutsAfterSet(timeouts, t.id, t.g)
  /\ \E threw \in BOOLEAN :
       /\ emitted' = Emit("giveawayStarted", t.id, t.g, threw)
       /\ raised' = Rethrown(threw)
       /\ tasks' = (Finish(t) (+) SetToBag(EndTasksAfterSet(t.id, t.g)))
                   (+) SetToBag(CollectorAfterStarted(threw, t.id, t.g))
  /\ UNCHANGED <<now, announce, channelOk, liveCollectors, collectors, finals, drawn,
                 calls>>
  /\ UNCHANGED componentVars

\* ------------------------------------------------------------ end

\* end, lines 243-246
endGet(t) ==
  /\ t.kind = "end" /\ t.pc = "get"
  /\ LET g == AdapterGet(t.id) IN
       tasks' = IF NotFoundOrEnded(g) THEN Finish(t)
                ELSE Become(t, [t EXCEPT !.pc = "fetch", !.g = g])
  /\ Quiet
  /\ raised' = NoError
  /\ UNCHANGED <<now, store, announce, channelOk, timers, timeouts, liveCollectors,
                 collectors, drawn, calls>>
  /\ UNCHANGED componentVars

\* end, lines 246-276: channel, message and reactors are fetched, the winners picked
endFetch(t) ==
  /\ t.kind = "end" /\ t.pc = "fetch"
  /\ IF ~channelOk
     THEN /\ tasks' = Finish(t)
          /\ UNCHANGED drawn
     ELSE /\ drawn' = [drawn EXCEPT ![t.id] = @ + 1]
          /\ tasks' = Become(t, [t EXCEPT !.pc = "edit"])
  /\ Quiet
  /\ raised' = NoError
  /\ UNCHANGED <<now, store, announce, channelOk, timers, timeouts, liveCollectors,
                 collectors, calls>>
  /\ UNCHANGED componentVars

\* end, lines 280-284
EndedEvent(rerolled) == IF rerolled THEN "giveawayRerolled" ELSE "giveawayEnded"

\* end, lines 281-285: adapter.save is called only if events.emit did not throw
SaveAfterEnded(threw, t) ==
  IF threw THEN Finish(t) ELSE Become(t, [t EXCEPT !.pc = "save", !.g.ended = TRUE])

\* end, lines 276-285: message.edit resolves; giveaway.ended is set, the countdown and
\* the collector are cleared, the event is emitted, and adapter.save is awaited.
endEdit(t) ==
  /\ t.kind = "end" /\ t.pc = "edit"
  /\ announce' = [announce EXCEPT ![t.id] = Shown(t.g.prize, TRUE)]
  /\ timers' = TimersAfterClear(t.id)
  /\ timeouts' = TimeoutsAfterClear(t.id)
  /\ liveCollectors' = LiveCollectorsAfterClear(t.id)
  /\ collectors' = CollectorsAfterClear(t.id)
  /\ finals' = [finals EXCEPT ![t.id] = @ + 1]
  /\ \E threw \in BOOLEAN :
       /\ emitted' = Emit(EndedEvent(t.rerolled), t.id, [t.g EXCEPT !.ended = TRUE], threw)
       /\ tasks' = SaveAfterEnded(threw, t)
       /\ raised' = Rethrown(threw)
  /\ UNCHANGED <<now, store, channelOk, drawn, calls>>
  /\ UNCHANGED componentVars

\* end, lines 285-286: adapter.save resolves
endSave(t) ==
  /\ t.kind = "end" /\ t.pc = "save"
  /\ store' = AdapterSave(t.id, t.g)
  /\ tasks' = Finish(t)
  /\ Quiet
  /\ raised' = NoError
  /\ UNCHANGED <<now, announce, channelOk, timers, timeouts, liveCollectors,
                 collectors, drawn, calls>>
  /\ UNCHANGED componentVars

\* ------------------------------------------------------------ reroll

\* reroll, line 415: the call of this.end(giveawayId, true); the task remembers that
\* reroll made it.
RerollEnd(id) == Task("end", id, "get", None, TRUE, "-", FALSE) @@ [via |-> "reroll"]

ViaReroll(t) == "via" \in DOMAIN t

\* reroll, lines 413-415: the record is read, then end(id, true) reads it again
rerollGet(t) ==
  /\ t.kind = "reroll" /\ t.pc = "get"
  /\ tasks' = IF NotFoundOrEnded(AdapterGet(t.id)) THEN Finish(t)
              ELSE Become(t, RerollEnd(t.id))
  /\ Quiet
  /\ raised' = NoError
  /\ UNCHANGED <<now, store, announce, channelOk, timers, timeouts, liveCollectors,
                 collectors, drawn, calls>>
  /\ UNCHANGED componentVars

\* ------------------------------------------------------------ edit

\* An edit that tests only whether the record exists.
editGetIgnoresEnded(t) ==
  /\ t.kind = "edit" /\ t.pc = "get"
  /\ LET g == AdapterGet(t.id) IN
       IF NotFound(g)
       THEN tasks' = Finish(t) /\ raised' = NotFoundError
       ELSE tasks' = Become(t, [t EXCEPT !.pc = "msg", !.g = g]) /\ raised' = NoError
  /\ Quiet
  /\ UNCHANGED <<now, store, announce, channelOk, timers, timeouts, liveCollectors,
                 collectors, drawn, calls>>
  /\ UNCHANGED componentVars

\* edit, lines 325-330
editGet(t) ==
  /\ t.kind = "edit" /\ t.pc = "get"
  /\ LET g == AdapterGet(t.id) IN
       IF NotFoundOrEnded(g)
       THEN tasks' = Finish(t) /\ raised' = NotFoundError
       ELSE tasks' = Become(t, [t EXCEPT !.pc = "msg", !.g = g]) /\ raised' = NoError
  /\ Quiet
  /\ UNCHANGED <<now, store, announce, channelOk, timers, timeouts, liveCollectors,
                 collectors, drawn, calls>>
  /\ UNCHANGED componentVars

\* edit, lines 330-341: the channel and the message are fetched, the embed re-rendered
editMsg(t) ==
  /\ t.kind = "edit" /\ t.pc = "msg"
  /\ IF ~channelOk
     THEN /\ tasks' = Finish(t)
          /\ UNCHANGED announce
     ELSE /\ announce' = [announce EXCEPT ![t.id] = Shown(t.prize, FALSE)]
          /\ tasks' = Become(t, [t EXCEPT !.pc = "save"])
  /\ Quiet
  /\ raised' = NoError
  /\ UNCHANGED <<now, store, channelOk, timers, timeouts, liveCollectors, collectors,
                 drawn, calls>>
  /\ UNCHANGED componentVars

\* edit, lines 341-350: the record written by adapter.edit
EditedRecord(g, prize) == GiveawayData(g.messageId, g.endAt, prize, FALSE)

\* edit, lines 341-360: adapter.edit resolves, giveawayEdited is emitted
editSave(t) ==
  /\ t.kind = "edit" /\ t.pc = "save"
  /\ store' = AdapterEdit(t.id, EditedRecord(t.g, t.prize))
  /\ \E threw \in BOOLEAN :
       /\ emitted' = Emit("giveawayEdited", t.id, EditedRecord(t.g, t.prize), threw)
       /\ raised' = Rethrown(threw)
  /\ tasks' = Finish(t)
  /\ UNCHANGED <<now, announce, channelOk, timers, timeouts, liveCollectors,
                 collectors, finals, drawn, calls>>
  /\ UNCHANGED componentVars

\* ------------------------------------------------------------ restoreTimeouts

\* restoreTimeouts without the test of line 383: every stored record is taken.
ActiveOrEnded(i) == store[i] # None

\* restoreTimeouts, line 383
Active(i) == store[i] # None /\ ~store[i].ended

\* restoreTimeouts, lines 381-387: adapter.getAll resolves; every record that has not
\* ended gets setTimeoutForGiveaway and setReactionCollector.
restoreGetAll(t) ==
  /\ t.kind = "restore" /\ t.pc = "getAll"
  /\ timers' = [i \in Ids |-> IF Active(i) THEN TimersAfterSet(timers, i, store[i])[i]
                               ELSE timers[i]]
  /\ timeouts' = [i \in Ids |-> IF Active(i) THEN TimeoutsAfterSet(timeouts, i, store[i])[i]
                                 ELSE timeouts[i]]
  /\ tasks' = (Finish(t)
               (+) SetToBag(UNION {EndTasksAfterSet(i, store[i]) : i \in {j \in Ids : Active(j)}}))
               (+) SetToBag({CollectorSetup(i, store[i]) : i \in {j \in Ids : Active(j)}})
  /\ Quiet
  /\ raised' = NoError
  /\ UNCHANGED <<now, store, announce, channelOk, liveCollectors, collectors,
                 drawn, calls>>
  /\ UNCHANGED componentVars

\* ------------------------------------------------------------ setReactionCollector

\* setReactionCollector, lines 457-471: channel and message are fetched, the collector
\* is created and stored in this.collectors.
setReactionCollector(t) ==
  /\ t.kind = "collector" /\ t.pc = "setup"
  /\ IF ~channelOk
     THEN raised' = ChannelError /\ UNCHANGED <<liveCollectors, collectors>>
     ELSE /\ liveCollectors' = [liveCollectors EXCEPT ![t.id] = @ + 1]
          /\ collectors' = [collectors EXCEPT ![t.id] = TRUE]
          /\ raised' = NoError
  /\ tasks' = Finish(t)
  /\ Quiet
  /\ UNCHANGED <<now, store, announce, channelOk, timers, timeouts, drawn, calls>>
  /\ UNCHANGED componentVars

\* ------------------------------------------------------------ environment

\* setTimeoutForGiveaway, lines 434-436: an armed timer that is due runs its callback
timerFires(id, k) ==
  /\ k \in 1..Len(timers[id])
  /\ timers[id][k] <= now
  /\ timers' = [timers EXCEPT ![id] = SubSeq(@, 1, k - 1) \o SubSeq(@, k + 1, Len(@))]
  /\ timeouts' = IF k = Len(timers[id]) /\ timeouts[id] = "armed"
                 THEN [timeouts EXCEPT ![id] = "fired"] ELSE timeouts
  /\ tasks' = Spawn({CountdownEnd(id)})
  /\ Quiet
  /\ raised' = NoError
  /\ UNCHANGED <<now, store, announce, channelOk, liveCollectors, collectors,
                 drawn, calls>>
  /\ UNCHANGED componentVars

\* Time passes: by one unit, or up to the due time of an armed timer.
Tick ==
  /\ \/ now < MaxTime /\ now' = now + 1
     \/ \E i \in Ids : \E k \in 1..Len(timers[i]) : timers[i][k] > now /\ now' = timers[i][k]
  /\ Quiet
  /\ raised' = NoError
  /\ UNCHANGED <<store, announce, channelOk, timers, timeouts, liveCollectors,
                 collectors, tasks, drawn, calls>>
  /\ UNCHANGED componentVars

Next ==
  \/ \E p \in Prizes, d \in Durations : start(p, d)
  \/ \E id \in Ids, r \in BOOLEAN : end(id, r)
  \/ \E id \in Ids : reroll(id)
  \/ \E id \in Ids, p \in Prizes : edit(id, p)
  \/ restoreTimeouts
  \/ \E t \in Running : startPost(t)
  \/ \E t \in Running : startSave(t)
  \/ \E t \in Running : endGet(t)
  \/ \E t \in Running : endFetch(t)
  \/ \E t \in Running : endEdit(t)
  \/ \E t \in Running : endSave(t)
  \/ \E t \in Running : rerollGet(t)
  \/ \E t \in Running : editGet(t)
  \/ \E t \in Running : editMsg(t)
  \/ \E t \in Running : editSave(t)
  \/ \E t \in Running : restoreGetAll(t)
  \/ \E t \in Running : setReactionCollector(t)
  \/ \E id \in Ids : \E k \in 1..Len(timers[id]) : timerFires(id, k)
  \/ Tick

Spec == Init /\ [][Next]_vars

\* What the event loop does on its own: it resumes every task whose awaited call has
\* resolved, runs the callback of every timer that is due, and time passes.
Progress ==
  \/ \E t \in Running : startPost(t)
  \/ \E t \in Running : startSave(t)
  \/ \E t \in Running : endGet(t)
  \/ \E t \in Running : endFetch(t)
  \/ \E t \in Running : endEdit(t)
  \/ \E t \in Running : endSave(t)
  \/ \E t \in Running : rerollGet(t)
  \/ \E t \in Running : editGet(t)
  \/ \E t \in Running : editMsg(t)
  \/ \E t \in Running : editSave(t)
  \/ \E t \in Running : restoreGetAll(t)
  \/ \E t \in Running : setReactionCollector(t)
  \/ \E id \in Ids : \E k \in 1..Len(timers[id]) : timerFires(id, k)
  \/ Tick

\* The engine under a scheduler that never stops: no fairness is assumed of the
\* operator's calls.
FairSpec == Spec /\ WF_vars(Progress)

\* ============================================================ winner draw
\* end(), lines 252-284, and pickWinners, lines 422-425, for one giveaway whose
\* announcement was fetched: every list of reacting users, either setting of botsCanWin
\* and every winner count.

MaxHumans == 2
MaxWinnerCount == 3

\* The account the engine runs as, which posts the announcement and adds the entry
\* reaction to it (start, lines 207-208): a bot account.
ClientUser == [id |-> MaxHumans + 1, bot |-> TRUE]

\* The accounts that may have reacted: people, and one bot (user.bot), the engine's
\* own.
Accounts ==
  {[id |-> h, bot |-> FALSE] : h \in 1..MaxHumans} \cup {ClientUser}

\* The lists without repetition over a set.
ListsOf(S) ==
  {l \in UNION {[1..n -> S] : n \in 0..Cardinality(S)} :
     \A a, b \in 1..Len(l) : l[a] = l[b] => a = b}

\* reactions.cache.get(this.reaction)?.users.fetch(): undefined when the message has no
\* such reaction, else the collection of the users who reacted (keyed by user id).
ReactionUsers ==
  {[found |-> FALSE]} \cup {[found |-> TRUE, users |-> l] : l \in ListsOf(Accounts)}

\* giveaway.winnerCount is a number that nothing validates.
WinnerCounts == -1..MaxWinnerCount

\* users.map((u) => u.id)
IdsOf(l) == [k \in 1..Len(l) |-> l[k].id]

\* users.filter((u) => !u.bot)
NotBot(u) == ~u.bot

\* An entry pool that keeps the bots whatever the setting.
EntriesUnfiltered(r, canWin) ==
  IF r.found THEN IdsOf(r.users) ELSE <<>>

\* end, lines 255-260
Entries(r, canWin) ==
  IF ~canWin
  THEN IF r.found THEN IdsOf(SelectSeq(r.users, NotBot)) ELSE <<>>
  ELSE IF r.found THEN IdsOf(r.users) ELSE <<>>

\* A draw of as many ids as the list has, each taken from the whole list.
Resampled(l) == [1..Len(l) -> {l[k] : k \in 1..Len(l)}]

\* entries.sort(() => 0.5 - Math.random()): the comparator answers at random, so the
\* list comes back in some order, which the engine does not choose.
Shuffled(l) ==
  {[k \in 1..Len(l) |-> l[p[k]]] :
     p \in {q \in [1..Len(l) -> 1..Len(l)] : \A a, b \in 1..Len(l) : q[a] = q[b] => a = b}}

\* Array.prototype.slice: an index below zero counts from the end, and both indices
\* are kept within the list.
SliceIndex(len, i) == IF i < 0 THEN (IF len + i < 0 THEN 0 ELSE len + i)
                      ELSE (IF i > len THEN len ELSE i)

\* l.slice(from, to), with indices from zero
Slice(l, from, to) ==
  LET a == SliceIndex(Len(l), from)
      b == SliceIndex(Len(l), to)
  IN  IF b <= a THEN <<>> ELSE SubSeq(l, a + 1, b)

\* pickWinners(entries, count), lines 422-425: what it may return
PickWinners(l, count) == {Slice(sh, 0, count) : sh \in Shuffled(l)}

\* The lifecycle engine at rest, while a part is studied by itself.
LifecycleIdle ==
  /\ now = 0
  /\ store = [i \in Ids |-> None]
  /\ announce = [i \in Ids |-> None]
  /\ channelOk = TRUE
  /\ timers = [i \in Ids |-> <<>>]
  /\ timeouts = [i \in Ids |-> "absent"]
  /\ liveCollectors = [i \in Ids |-> 0]
  /\ collectors = [i \in Ids |-> FALSE]
  /\ tasks = EmptyBag
  /\ emitted = None
  /\ finals = [i \in Ids |-> 0]
  /\ drawn = [i \in Ids |-> 0]
  /\ calls = 0
  /\ raised = NoError

\* end() has fetched the announcement of an active giveaway.
DrawInit ==
  /\ reactors \in ReactionUsers
  /\ botsCanWin \in BOOLEAN
  /\ winnerCount \in WinnerCounts
  /\ entries = <<>> /\ winners = <<>> /\ announced = <<>>
  /\ drawPc = "fetch"
  /\ mention = "" /\ endedSaved = FALSE
  /\ LifecycleIdle
  /\ EntryIdle
  /\ StorageIdle
  /\ GateIdle
  /\ SqlIdle

\* end, lines 252-260: the users are fetched and the entry pool is built
fetchEntries ==
  /\ drawPc = "fetch"
  /\ entries' = Entries(reactors, botsCanWin)
  /\ drawPc' = "pick"
  /\ UNCHANGED <<reactors, botsCanWin, winnerCount, winners, announced, mention,
                 endedSaved>>
  /\ UNCHANGED <<sqlVars, lifecycleVars, entryVars, storageVars, gateVars>>

\* end, lines 263-265: the mentions of the winners, or t("no_winners")
Mention(w) == IF Len(w) # 0 THEN "mentions" ELSE "no_winners"

\* end, lines 262-276: the winners are picked and the announcement is edited
pickWinners ==
  /\ drawPc = "pick"
  /\ winners' \in PickWinners(entries, winnerCount)
  /\ mention' = Mention(winners')
  /\ drawPc' = "emit"
  /\ UNCHANGED <<reactors, botsCanWin, winnerCount, entries, announced, endedSaved>>
  /\ UNCHANGED <<sqlVars, lifecycleVars, entryVars, storageVars, gateVars>>

\* end, lines 276-285: the event carries the winners; adapter.save is called only if
\* events.emit did not throw
emitWinners ==
  /\ drawPc = "emit"
  /\ announced' = winners
  /\ \E threw \in BOOLEAN : drawPc' = IF threw THEN "done" ELSE "save"
  /\ UNCHANGED <<reactors, botsCanWin, winnerCount, entries, winners, mention,
                 endedSaved>>
  /\ UNCHANGED <<sqlVars, lifecycleVars, entryVars, storageVars, gateVars>>

\* end, lines 285-286: adapter.save resolves
saveEnded ==
  /\ drawPc = "save"
  /\ endedSaved' = TRUE
  /\ drawPc' = "done"
  /\ UNCHANGED <<reactors, botsCanWin, winnerCount, entries, winners, announced,
                 mention>>
  /\ UNCHANGED <<sqlVars, lifecycleVars, entryVars, storageVars, gateVars>>

DrawNext == fetchEntries \/ pickWinners \/ emitWinners \/ saveEnded

DrawSpec == DrawInit /\ [][DrawNext]_vars

\* ======================================================== entry collection
\* The "collect" handler of setReactionCollector, lines 473-506, and checkRequirements
\* (src/src/RequirementCheck.ts), for the collector of one active giveaway: every
\* requirement set, every entrant, and reactions whose handlers interleave at their
\* awaits.  The reactions are those the collector's filter lets through: the entry
\* emoji, from a user who is not the author of the announcement.

MaxReactions == 2

\* Timestamps, as few as tell "before", "at" and "after" a threshold apart.
Thresholds == 0..1
Timestamps == 0..2
Roles == {"vip"}

\* requirements.custom(user.id) throws, or the promise it returns rejects.
Rejects == [rejects |-> TRUE]

\* What requirements.custom(user.id) does: it resolves to { passed, reason }, or it
\* rejects.
CustomAnswers ==
  {[passed |-> TRUE, reason |-> ""]} \cup
  {[passed |-> FALSE, reason |-> r] : r \in {"custom", ""}} \cup
  {Rejects}

\* GiveawayRequirements (src/src/types/index.ts), or no requirements at all
RequirementSets ==
  {[given |-> FALSE]} \cup
  {[given |-> TRUE, requiredRoles |-> r, accountAgeMin |-> a, joinedServerBefore |-> j,
    custom |-> c] :
     r \in {Unset} \cup {Opt(x) : x \in SUBSET Roles},
     a \in {Unset} \cup {Opt(x) : x \in Thresholds},
     j \in {Unset} \cup {Opt(x) : x \in Thresholds},
     c \in {Unset} \cup {Opt(x) : x \in CustomAnswers}}

\* user.createdTimestamp, member.joinedTimestamp (which may be null), member.roles
Entrants ==
  {[created |-> c, joined |-> j, roles |-> r] :
     c \in Timestamps \ {0}, j \in {Unset} \cup {Opt(x) : x \in Timestamps \ {0}},
     r \in SUBSET Roles}

\* if (x) on an optional number: undefined and 0 are both falsy
TruthyNumber(o) == o.set /\ o.value # 0

\* if (x) on an optional array or function: only undefined is falsy
TruthyObject(o) == o.set

\* The reasons checkRequirements builds (localized texts, none of them empty).
RoleReason == "you_role"
AccountReason == "you_account"
MemberReason == "you_member"

Passed == [done |-> TRUE, passed |-> TRUE, reason |-> ""]
Failed(reason) == [done |-> TRUE, passed |-> FALSE, reason |-> reason]

\* checkRequirements with the membership check (lines 36-47) put before
\* the account check (lines 25-34).
BeforeCustomJoinFirst(e, req) ==
  IF ~req.given THEN Passed
  ELSE IF TruthyObject(req.requiredRoles) /\ ~(req.requiredRoles.value \subseteq e.roles)
       THEN Failed(RoleReason)
  ELSE IF TruthyNumber(req.joinedServerBefore)
          /\ (~e.joined.set \/ e.joined.value > req.joinedServerBefore.value)
       THEN Failed(MemberReason)
  ELSE IF TruthyNumber(req.accountAgeMin) /\ e.created > req.accountAgeMin.value
       THEN Failed(AccountReason)
  ELSE NoVerdict

\* checkRequirements with >= for > in the account check (line 26).
BeforeCustomAgeStrict(e, req) ==
  IF ~req.given THEN Passed
  ELSE IF TruthyObject(req.requiredRoles) /\ ~(req.requiredRoles.value \subseteq e.roles)
       THEN Failed(RoleReason)
  ELSE IF TruthyNumber(req.accountAgeMin) /\ e.created >= req.accountAgeMin.value
       THEN Failed(AccountReason)
  ELSE IF TruthyNumber(req.joinedServerBefore)
          /\ (~e.joined.set \/ e.joined.value > req.joinedServerBefore.value)
       THEN Failed(MemberReason)
  ELSE NoVerdict

\* checkRequirements, lines 10-47: the checks that run before the custom predicate.
\* NoVerdict: none of them failed.
BeforeCustom(e, req) ==
  IF ~req.given THEN Passed
  ELSE IF TruthyObject(req.requiredRoles) /\ ~(req.requiredRoles.value \subseteq e.roles)
       THEN Failed(RoleReason)
  ELSE IF TruthyNumber(req.accountAgeMin) /\ e.created > req.accountAgeMin.value
       THEN Failed(AccountReason)
  ELSE IF TruthyNumber(req.joinedServerBefore)
          /\ (~e.joined.set \/ e.joined.value > req.joinedServerBefore.value)
       THEN Failed(MemberReason)
  ELSE NoVerdict

\* checkRequirements, lines 49-57: what it returns once the custom predicate resolved
AfterCustom(answer) ==
  IF ~answer.passed THEN Failed(answer.reason) ELSE Passed

\* A call of the handler for reaction n.
Handler(n, pc, reason) == [n |-> n, pc |-> pc, reason |-> reason]

Handling == BagToSet(handlers)

\* The collector reports a reaction: the handler emits reactionAdded and awaits the
\* member (lines 473-475).
collect ==
  /\ ~exited
  /\ collecting
  /\ reactions + unheard < MaxReactions
  /\ reactions' = reactions + 1
  /\ published' = Append(published, <<"reactionAdded">>)
  /\ verdict' = Append(verdict, NoVerdict)
  /\ customCalls' = Append(customCalls, 0)
  /\ removed' = Append(removed, FALSE)
  /\ notices' = Append(notices, 0)
  /\ handlers' = handlers (+) SetToBag({Handler(reactions + 1, "check", "")})
  /\ carried' = Append(carried, requirements)
  /\ late' = IF closing = "edit" THEN late \cup {reactions + 1} ELSE late
  /\ afterEdit' = IF edited THEN afterEdit \cup {reactions + 1} ELSE afterEdit
  /\ UNCHANGED <<requirements, entrant, removeOk, unhandled, exited>>
  /\ UNCHANGED <<collecting, unheard, persisted, closing, caught, edited>>
  /\ UNCHANGED <<sqlVars, lifecycleVars, drawVars, storageVars>>

\* Lines 481-504, from the verdict on: a pass is published at once; after a failure
\* the handler awaits the removal of the reaction.
PublishedAfter(h, v) ==
  IF v.passed THEN [published EXCEPT ![h.n] = Append(@, "requirementsPassed")]
  ELSE published

HandlersAfter(h, v) ==
  IF v.passed THEN handlers (-) SetToBag({h})
  ELSE (handlers (-) SetToBag({h})) (+) SetToBag({Handler(h.n, "remove", v.reason)})

\* Lines 475-481: checkRequirements runs its own checks; it returns, or it calls the
\* custom predicate and awaits it.
handlerCheck(h) ==
  /\ ~exited
  /\ h.pc = "check"
  /\ LET v == BeforeCustom(entrant, requirements) IN
       IF v.done
       THEN /\ verdict' = [verdict EXCEPT ![h.n] = v]
            /\ published' = PublishedAfter(h, v)
            /\ handlers' = HandlersAfter(h, v)
            /\ UNCHANGED customCalls
       ELSE IF TruthyObject(requirements.custom)
       THEN /\ customCalls' = [customCalls EXCEPT ![h.n] = @ + 1]
            /\ handlers' = (handlers (-) SetToBag({h}))
                            (+) SetToBag({Handler(h.n, "custom", "")})
            /\ UNCHANGED <<verdict, published>>
       ELSE /\ verdict' = [verdict EXCEPT ![h.n] = Passed]
            /\ published' = PublishedAfter(h, Passed)
            /\ handlers' = HandlersAfter(h, Passed)
            /\ UNCHANGED customCalls
  /\ UNCHANGED <<requirements, entrant, removeOk, reactions, removed, notices,
                 unhandled, exited>>
  /\ UNCHANGED <<sqlVars, lifecycleVars, drawVars, storageVars, gateVars>>

\* checkRequirements, lines 49-59: the custom predicate resolves
handlerCustom(h) ==
  /\ ~exited
  /\ h.pc = "custom"
  /\ requirements.custom.value # Rejects
  /\ LET v == AfterCustom(requirements.custom.value) IN
       /\ verdict' = [verdict EXCEPT ![h.n] = v]
       /\ published' = PublishedAfter(h, v)
       /\ handlers' = HandlersAfter(h, v)
  /\ UNCHANGED <<requirements, entrant, removeOk, reactions, customCalls, removed, notices,
                 unhandled, exited>>
  /\ UNCHANGED <<sqlVars, lifecycleVars, drawVars, storageVars, gateVars>>

\* checkRequirements, line 50, and the handler, line 481: the custom predicate rejects.
\* Neither checkRequirements nor the handler catches it, and the collector does not
\* await the promise the async handler returned: the rejection is unhandled.  What
\* the runtime does with it is not the library's choice (the default of Node.js from
\* version 15 on is to terminate the process; older versions, and a host that
\* listens for 'unhandledRejection', go on).
handlerThrows(h) ==
  /\ ~exited
  /\ h.pc = "custom"
  /\ requirements.custom.value = Rejects
  /\ handlers' = handlers (-) SetToBag({h})
  /\ unhandled' = unhandled \cup {h.n}
  /\ exited' \in BOOLEAN
  /\ UNCHANGED <<requirements, entrant, removeOk, reactions, verdict, customCalls,
                 published, removed, notices>>
  /\ UNCHANGED <<sqlVars, lifecycleVars, drawVars, storageVars, gateVars>>

\* Lines 482-493: reaction.users.remove resolves, or rejects and is caught; a notice is
\* sent only if (reason), else the handler returns.
handlerRemove(h) ==
  /\ ~exited
  /\ h.pc = "remove"
  /\ removed' = [removed EXCEPT ![h.n] = removeOk]
  /\ handlers' = IF h.reason # ""
                  THEN (handlers (-) SetToBag({h}))
                       (+) SetToBag({Handler(h.n, "notice", h.reason)})
                  ELSE handlers (-) SetToBag({h})
  /\ UNCHANGED <<requirements, entrant, removeOk, reactions, verdict, customCalls,
                 published, notices, unhandled, exited>>
  /\ UNCHANGED <<sqlVars, lifecycleVars, drawVars, storageVars, gateVars>>

\* Lines 492-502: the notice is in the channel; requirementsFailed is emitted
handlerNotice(h) ==
  /\ ~exited
  /\ h.pc = "notice"
  /\ notices' = [notices EXCEPT ![h.n] = @ + 1]
  /\ published' = [published EXCEPT ![h.n] = Append(@, "requirementsFailed")]
  /\ handlers' = handlers (-) SetToBag({h})
  /\ UNCHANGED <<requirements, entrant, removeOk, reactions, verdict, customCalls,
                 removed, unhandled, exited>>
  /\ UNCHANGED <<sqlVars, lifecycleVars, drawVars, storageVars, gateVars>>

\* A collector is listening on the announcement of an active giveaway; end is not
\* called and the record is not edited.
EntryInit ==
  /\ requirements \in RequirementSets
  /\ entrant \in Entrants
  /\ removeOk \in BOOLEAN
  /\ reactions = 0
  /\ handlers = EmptyBag
  /\ verdict = <<>> /\ customCalls = <<>> /\ published = <<>>
  /\ removed = <<>> /\ notices = <<>>
  /\ unhandled = {} /\ exited = FALSE
  /\ LifecycleIdle
  /\ DrawIdle
  /\ StorageIdle
  /\ SqlIdle
  /\ collecting = TRUE /\ unheard = 0
  /\ persisted = [requirements |-> requirements, ended |-> FALSE]
  /\ closing = "none" /\ late = {} /\ caught = {}
  /\ edited = FALSE /\ afterEdit = {} /\ carried = <<>>

EntryNext ==
  \/ collect
  \/ \E h \in Handling : handlerCheck(h)
  \/ \E h \in Handling : handlerCustom(h)
  \/ \E h \in Handling : handlerThrows(h)
  \/ \E h \in Handling : handlerRemove(h)
  \/ \E h \in Handling : handlerNotice(h)

EntrySpec == EntryInit /\ [][EntryNext]_vars

\* ====================================================== collection and end
\* The handler above next to the rest of one giveaway's life: setReactionCollector
\* creates the collector some time after the announcement was posted, users react
\* before and after that, end() runs one await at a time, and an edit stores new
\* requirements.  The entries are the reactions: reaction n of the collector is entry
\* n, and the k-th reaction no collector reported is entry -k.

\* Requirement sets that tell the entrants apart: a required role, and a custom
\* predicate that passes, fails or rejects.
GateRequirements ==
  {q \in RequirementSets :
     /\ q.given /\ q.accountAgeMin = Unset /\ q.joinedServerBefore = Unset
     /\ \/ q.requiredRoles = Opt(Roles) /\ q.custom = Unset
        \/ /\ q.requiredRoles = Unset
           /\ q.custom \in {Opt([passed |-> TRUE, reason |-> ""]),
                            Opt([passed |-> FALSE, reason |-> "custom"]),
                            Opt(Rejects)}}

\* Entrants with and without the role.
GateEntrants == {e \in Entrants : e.created = 1 /\ e.joined = Opt(1)}

\* message.reactions.cache.get(this.reaction).users, line 252: the users whose
\* reaction is on the announcement
OnMessage ==
  {n \in 1..reactions : ~removed[n]} \cup {0 - k : k \in 1..unheard}

\* The users in the order the fetch returns them
Fetched(S) ==
  {l \in [1..Cardinality(S) -> S] : \A a, b \in 1..Cardinality(S) : l[a] = l[b] => a = b}

\* setReactionCollector, lines 468-473: the collector is created and listens
createCollector ==
  /\ ~exited
  /\ ~collecting /\ closing = "none"
  /\ collecting' = TRUE
  /\ UNCHANGED <<unheard, persisted, closing, late, caught, edited, afterEdit, carried>>
  /\ UNCHANGED <<sqlVars, lifecycleVars, drawVars, entryVars, storageVars>>

\* A user adds the entry reaction while no collector listens: before
\* createReactionCollector (line 468) or after collector.stop() (line 451).
reactUnheard ==
  /\ ~exited
  /\ ~collecting
  /\ reactions + unheard < MaxReactions
  /\ unheard' = unheard + 1
  /\ UNCHANGED <<collecting, persisted, closing, late, caught, edited, afterEdit, carried>>
  /\ UNCHANGED <<sqlVars, lifecycleVars, drawVars, entryVars, storageVars>>

\* end(giveawayId, false) is called, by the countdown or by the operator (line 243)
closeCall ==
  /\ ~exited
  /\ closing = "none"
  /\ closing' = "get"
  /\ UNCHANGED <<collecting, unheard, persisted, late, caught, edited, afterEdit, carried>>
  /\ UNCHANGED <<sqlVars, lifecycleVars, drawVars, entryVars, storageVars>>

\* end, lines 243-246
closeGet ==
  /\ ~exited
  /\ closing = "get"
  /\ closing' = IF persisted.ended THEN "done" ELSE "channel"
  /\ UNCHANGED <<collecting, unheard, persisted, late, caught, edited, afterEdit, carried>>
  /\ UNCHANGED <<sqlVars, lifecycleVars, drawVars, entryVars, storageVars>>

\* end, lines 246-249: the channel is there
closeChannel ==
  /\ ~exited
  /\ closing = "channel"
  /\ closing' = "message"
  /\ UNCHANGED <<collecting, unheard, persisted, late, caught, edited, afterEdit, carried>>
  /\ UNCHANGED <<sqlVars, lifecycleVars, drawVars, entryVars, storageVars>>

\* end, lines 249-254
closeMessage ==
  /\ ~exited
  /\ closing = "message"
  /\ closing' = "users"
  /\ UNCHANGED <<collecting, unheard, persisted, late, caught, edited, afterEdit, carried>>
  /\ UNCHANGED <<sqlVars, lifecycleVars, drawVars, entryVars, storageVars>>

\* end, lines 252-276: the users are fetched and the winners are drawn
closeUsers ==
  /\ ~exited
  /\ closing = "users"
  /\ entries' \in Fetched(OnMessage)
  /\ winners' \in PickWinners(entries', winnerCount)
  /\ closing' = "edit"
  /\ UNCHANGED <<collecting, unheard, persisted, late, caught, edited, afterEdit, carried>>
  /\ UNCHANGED <<reactors, botsCanWin, winnerCount, announced, drawPc, mention,
                 endedSaved>>
  /\ UNCHANGED <<sqlVars, lifecycleVars, entryVars, storageVars>>

\* end, lines 276-285: the announcement is edited, giveaway.ended = true,
\* clearTimeoutForGiveaway stops the collector (line 451), the event is emitted
closeEdit ==
  /\ ~exited
  /\ closing = "edit"
  /\ collecting' = FALSE
  /\ caught' = {h.n : h \in {x \in Handling : x.pc = "custom"}}
  /\ closing' = "save"
  /\ UNCHANGED <<unheard, persisted, late, edited, afterEdit, carried>>
  /\ UNCHANGED <<sqlVars, lifecycleVars, drawVars, entryVars, storageVars>>

\* end, line 285: the record is saved with ended = true
closeSave ==
  /\ ~exited
  /\ closing = "save"
  /\ persisted' = [persisted EXCEPT !.ended = TRUE]
  /\ closing' = "done"
  /\ UNCHANGED <<collecting, unheard, late, caught, edited, afterEdit, carried>>
  /\ UNCHANGED <<sqlVars, lifecycleVars, drawVars, entryVars, storageVars>>

\* edit, lines 341-350: adapter.edit stores the options' requirements (and
\* ended: false) for a record that edit found not ended
editStored(q) ==
  /\ ~exited
  /\ ~edited /\ ~persisted.ended
  /\ q # persisted.requirements
  /\ persisted' = [requirements |-> q, ended |-> FALSE]
  /\ edited' = TRUE
  /\ UNCHANGED <<collecting, unheard, closing, late, caught, afterEdit, carried>>
  /\ UNCHANGED <<sqlVars, lifecycleVars, drawVars, entryVars, storageVars>>

\* start has posted the announcement and saved the record; setReactionCollector has
\* not yet created the collector, which will hold the record start passed to it.
GateInit ==
  /\ requirements \in GateRequirements
  /\ entrant \in GateEntrants
  /\ removeOk \in BOOLEAN
  /\ reactions = 0
  /\ handlers = EmptyBag
  /\ verdict = <<>> /\ customCalls = <<>> /\ published = <<>>
  /\ removed = <<>> /\ notices = <<>>
  /\ unhandled = {} /\ exited = FALSE
  /\ collecting = FALSE /\ unheard = 0
  /\ persisted = [requirements |-> requirements, ended |-> FALSE]
  /\ closing = "none" /\ late = {} /\ caught = {}
  /\ edited = FALSE /\ afterEdit = {} /\ carried = <<>>
  /\ LifecycleIdle
  /\ DrawIdle
  /\ StorageIdle
  /\ SqlIdle

GateNext ==
  \/ createCollector
  \/ reactUnheard
  \/ collect
  \/ \E h \in Handling : handlerCheck(h)
  \/ \E h \in Handling : handlerCustom(h)
  \/ \E h \in Handling : handlerThrows(h)
  \/ \E h \in Handling : handlerRemove(h)
  \/ \E h \in Handling : handlerNotice(h)
  \/ closeCall
  \/ closeGet
  \/ closeChannel
  \/ closeMessage
  \/ closeUsers
  \/ closeEdit
  \/ closeSave
  \/ \E q \in GateRequirements : editStored(q)

GateSpec == GateInit /\ [][GateNext]_vars

\* ============================================================ JSON storage

\* JSONAdapter keeps the records in this.cache and in the file at filePath.  Every
\* public method is an async function; a step is what runs between two awaits.  load()
\* reads the file at once (readFileSync) and assigns this.cache after the await; the
\* method's own work and saveFile()'s write (writeFileSync) run together after load()
\* has returned.  The file is read and written by the adapter alone and the disk does
\* not fail.

\* The requirement sets of the stored records: none, and one with every member set.
StoredRequirements ==
  {q \in RequirementSets :
     q.given => /\ q.requiredRoles = Opt(Roles)
                /\ q.accountAgeMin = Opt(1)
                /\ q.joinedServerBefore = Opt(1)
                /\ q.custom = Opt([passed |-> TRUE, reason |-> ""])}

\* GiveawayData as the adapter handles it: the key, the requirements, and prize for
\* the string, number and boolean fields, which JSON writes and reads back as they are.
StoredRecords ==
  {[requirements |-> q, prize |-> p, giveawayId |-> k] :
     q \in StoredRequirements, p \in Prizes, k \in Keys}

\* JSON.stringify of the requirements: a member whose value is a function has no JSON
\* form and is left out; a record without requirements has no such key.
StringifyRequirements(q) == IF q.given THEN [q EXCEPT !.custom = Unset] ELSE q

StringifyRecord(r) == [r EXCEPT !.requirements = StringifyRequirements(@)]

\* JSON.stringify(this.cache, null, 2): the text is held as the list of objects it
\* spells out.
RECURSIVE Stringify(_)
Stringify(c) ==
  IF c = <<>> THEN <<>> ELSE <<StringifyRecord(Head(c))>> \o Stringify(Tail(c))

\* JSON.parse(data): the objects the text spells out
Parse(text) == text

\* saveFile(): the file after the write
SaveFile(c) == [exists |-> TRUE, text |-> Stringify(c)]

\* cache.findIndex((g) => g.giveawayId === id), counted from 1; 0 for JavaScript's -1
FindIndex(c, id) ==
  IF \E k \in 1..Len(c) : c[k].giveawayId = id
  THEN CHOOSE k \in 1..Len(c) :
         /\ c[k].giveawayId = id
         /\ \A j \in 1..(k - 1) : c[j].giveawayId # id
  ELSE 0

\* cache.find((g) => g.giveawayId === id) ?? null
Find(c, id) == IF FindIndex(c, id) = 0 THEN None ELSE c[FindIndex(c, id)]

\* cache.filter((g) => g.giveawayId !== id)
RECURSIVE Filter(_, _)
Filter(c, id) ==
  IF c = <<>> THEN <<>>
  ELSE IF Head(c).giveawayId = id THEN Filter(Tail(c), id)
       ELSE <<Head(c)>> \o Filter(Tail(c), id)

\* save, lines 106-111: replace the record at index, or push
Saved(c, data) ==
  IF FindIndex(c, data.giveawayId) # 0
  THEN [c EXCEPT ![FindIndex(c, data.giveawayId)] = data]
  ELSE Append(c, data)

\* One call of an adapter method.  phase is the method whose body runs: the op itself,
\* or for edit its load(), then delete(id), then save(data).  text is load()'s local
\* `data`.  by tells a save made by start from the other calls.
AdapterCall(op, id, data, by) ==
  [op |-> op, id |-> id, pc |-> "read", data |-> data, text |-> <<>>, by |-> by,
   phase |-> IF op = "edit" THEN "load" ELSE op]

CallsInFlight == BagToSet(adapterCalls)

\* a caller invokes an adapter method: it runs up to load()'s await
CallAdapter(c) ==
  /\ BagCardinality(adapterCalls) < lanes
  /\ adapterCalls' = adapterCalls (+) SetToBag({c})
  /\ overlapped' = (overlapped \/ adapterCalls # EmptyBag)
  /\ returned' = NoAnswer
  /\ UNCHANGED <<file, cache, saved, restarted>>
  /\ UNCHANGED <<lanes, sqlVars, lifecycleVars, drawVars, entryVars, gateVars>>

\* start, lines 189-198 and 211: the new record under the generated id is saved
startRecord(prize, q) ==
  \E id \in GenerateId(Keys) :
    CallAdapter(AdapterCall("save", id,
                            [requirements |-> q, prize |-> prize, giveawayId |-> id],
                            "start"))

\* adapter.save(data) by another caller
jsonSave(data) == CallAdapter(AdapterCall("save", data.giveawayId, data, "caller"))

\* adapter.get(id)
jsonGet(id) == CallAdapter(AdapterCall("get", id, None, "caller"))

\* adapter.delete(id)
jsonDelete(id) == CallAdapter(AdapterCall("delete", id, None, "caller"))

\* adapter.getAll()
jsonGetAll == CallAdapter(AdapterCall("getAll", 0, None, "caller"))

\* adapter.edit(id, data)
jsonEdit(id, data) == CallAdapter(AdapterCall("edit", id, data, "caller"))

AdapterBecome(c, d) == (adapterCalls (-) SetToBag({c})) (+) SetToBag({d})
AdapterFinish(c) == adapterCalls (-) SetToBag({c})

\* load(), lines 70 and 73-75: the file is read; if there is none, the cache is emptied
\* and an empty list is written
readFile(c) ==
  /\ c.pc = "read"
  /\ IF file.exists
     THEN /\ adapterCalls' = AdapterBecome(c, [c EXCEPT !.pc = "parse", !.text = file.text])
          /\ UNCHANGED <<file, cache>>
     ELSE /\ cache' = <<>>
          /\ file' = SaveFile(<<>>)
          /\ adapterCalls' = AdapterBecome(c, [c EXCEPT !.pc = "body"])
  /\ returned' = NoAnswer
  /\ UNCHANGED <<saved, overlapped, restarted>>
  /\ UNCHANGED <<lanes, sqlVars, lifecycleVars, drawVars, entryVars, gateVars>>

\* load(), line 71
parseText(c) ==
  /\ c.pc = "parse"
  /\ cache' = Parse(c.text)
  /\ adapterCalls' = AdapterBecome(c, [c EXCEPT !.pc = "body", !.text = <<>>])
  /\ returned' = NoAnswer
  /\ UNCHANGED <<file, saved, overlapped, restarted>>
  /\ UNCHANGED <<lanes, sqlVars, lifecycleVars, drawVars, entryVars, gateVars>>

\* edit, lines 161-162: load() has returned and delete(id) is called
editLoaded(c) ==
  /\ c.pc = "body" /\ c.phase = "load"
  /\ adapterCalls' = AdapterBecome(c, [c EXCEPT !.phase = "delete", !.pc = "read"])
  /\ returned' = NoAnswer
  /\ UNCHANGED <<file, cache, saved, overlapped, restarted>>
  /\ UNCHANGED <<lanes, sqlVars, lifecycleVars, drawVars, entryVars, gateVars>>

\* save, lines 106-112
saveBody(c) ==
  /\ c.pc = "body" /\ c.phase = "save"
  /\ cache' = Saved(cache, c.data)
  /\ file' = SaveFile(cache')
  /\ saved' = [saved EXCEPT ![c.data.giveawayId] = c.data]
  /\ restarted' = FALSE
  /\ adapterCalls' = AdapterFinish(c)
  /\ returned' = NoAnswer
  /\ UNCHANGED overlapped
  /\ UNCHANGED <<lanes, sqlVars, lifecycleVars, drawVars, entryVars, gateVars>>

\* delete, lines 135-136; inside edit, save(data) is called next (line 163)
deleteBody(c) ==
  /\ c.pc = "body" /\ c.phase = "delete"
  /\ cache' = Filter(cache, c.id)
  /\ file' = SaveFile(cache')
  /\ saved' = [saved EXCEPT ![c.id] = None]
  /\ restarted' = FALSE
  /\ adapterCalls' = IF c.op = "edit"
                     THEN AdapterBecome(c, [c EXCEPT !.phase = "save", !.pc = "read"])
                     ELSE AdapterFinish(c)
  /\ returned' = NoAnswer
  /\ UNCHANGED overlapped
  /\ UNCHANGED <<lanes, sqlVars, lifecycleVars, drawVars, entryVars, gateVars>>

\* get, line 124
getBody(c) ==
  /\ c.pc = "body" /\ c.phase = "get"
  /\ returned' = [op |-> "get", value |-> Find(cache, c.id), id |-> c.id]
  /\ adapterCalls' = AdapterFinish(c)
  /\ UNCHANGED <<file, cache, saved, overlapped, restarted>>
  /\ UNCHANGED <<lanes, sqlVars, lifecycleVars, drawVars, entryVars, gateVars>>

\* getAll, line 147
getAllBody(c) ==
  /\ c.pc = "body" /\ c.phase = "getAll"
  /\ returned' = [op |-> "getAll", value |-> cache, id |-> c.id]
  /\ adapterCalls' = AdapterFinish(c)
  /\ UNCHANGED <<file, cache, saved, overlapped, restarted>>
  /\ UNCHANGED <<lanes, sqlVars, lifecycleVars, drawVars, entryVars, gateVars>>

\* The process is started again with nothing in flight: new JSONAdapter(filePath) has
\* an empty cache (line 34) and the same file.
restart ==
  /\ adapterCalls = EmptyBag
  /\ ~restarted
  /\ cache' = <<>>
  /\ restarted' = TRUE
  /\ overlapped' = FALSE
  /\ returned' = NoAnswer
  /\ UNCHANGED <<file, adapterCalls, saved>>
  /\ UNCHANGED <<lanes, sqlVars, lifecycleVars, drawVars, entryVars, gateVars>>

\* No file yet, or the file a previous run wrote for one record.  The callers await
\* every call before they make the next one.
StorageInit ==
  /\ LifecycleIdle
  /\ DrawIdle
  /\ EntryIdle
  /\ GateIdle
  /\ SqlIdle
  /\ adapterCalls = EmptyBag /\ returned = NoAnswer
  /\ overlapped = FALSE /\ restarted = FALSE
  /\ lanes = MaxAdapterCalls
  /\ cache = <<>>
  /\ \/ file = NoFile /\ saved = [k \in Keys |-> None]
     \/ \E r \in StoredRecords :
          /\ file = SaveFile(<<r>>)
          /\ saved = [k \in Keys |-> IF k = r.giveawayId THEN r ELSE None]

StorageNext ==
  \/ \E prize \in Prizes, q \in StoredRequirements : startRecord(prize, q)
  \/ \E data \in StoredRecords : jsonSave(data)
  \/ \E id \in Keys : jsonGet(id)
  \/ \E id \in Keys : jsonDelete(id)
  \/ jsonGetAll
  \/ \E id \in Keys, data \in StoredRecords : jsonEdit(id, data)
  \/ \E c \in CallsInFlight : readFile(c)
  \/ \E c \in CallsInFlight : parseText(c)
  \/ \E c \in CallsInFlight : editLoaded(c)
  \/ \E c \in CallsInFlight : saveBody(c)
  \/ \E c \in CallsInFlight : deleteBody(c)
  \/ \E c \in CallsInFlight : getBody(c)
  \/ \E c \in CallsInFlight : getAllBody(c)
  \/ restart

StorageSpec == StorageInit /\ [][StorageNext]_vars

\* ------------------------------------------------------------ overlapping calls
\* The same adapter under callers that do not wait for one call to return before they
\* make the next: a call runs up to its next await, then any call in flight goes on.
\* These callers save, edit and read, and never delete or rename a record.

MaxOverlap == 2

\* The records these callers pass: no requirements, every prize, every key.
RaceRecords ==
  {[requirements |-> [given |-> FALSE], prize |-> p, giveawayId |-> k] :
     p \in Prizes, k \in Keys}

\* The record that is in the file from the beginning.
KeptRecord == [requirements |-> [given |-> FALSE], prize |-> "nitro", giveawayId |-> MaxKeys]

RaceInit ==
  /\ LifecycleIdle
  /\ DrawIdle
  /\ EntryIdle
  /\ GateIdle
  /\ SqlIdle
  /\ adapterCalls = EmptyBag /\ returned = NoAnswer
  /\ overlapped = FALSE /\ restarted = FALSE
  /\ lanes = MaxOverlap
  /\ cache = <<>>
  /\ file = SaveFile(<<KeptRecord>>)
  /\ saved = [k \in Keys |-> IF k = KeptRecord.giveawayId THEN KeptRecord ELSE None]

RaceNext ==
  \/ \E data \in RaceRecords : jsonSave(data)
  \/ \E id \in Keys : jsonGet(id)
  \/ jsonGetAll
  \/ \E data \in RaceRecords : jsonEdit(data.giveawayId, data)
  \/ \E c \in CallsInFlight : readFile(c)
  \/ \E c \in CallsInFlight : parseText(c)
  \/ \E c \in CallsInFlight : editLoaded(c)
  \/ \E c \in CallsInFlight : saveBody(c)
  \/ \E c \in CallsInFlight : deleteBody(c)
  \/ \E c \in CallsInFlight : getBody(c)
  \/ \E c \in CallsInFlight : getAllBody(c)

RaceSpec == RaceInit /\ [][RaceNext]_vars

\* ========================================================= Sequelize storage
\* SequelizeAdapter.save and get (src/src/storage/SequelizeAdapter.ts, lines 89-113)
\* on the table that initGiveawayModel defines (src/unnamed/part_003), for the endAt
\* that start computes and the record that end saves again.  Timestamps are too large
\* for one machine integer here: a timestamp is the pair <<q, r>> that stands for
\* q * UnitMs + r milliseconds, with r below UnitMs.

\* Date.now() when the library is in use is at least MinClock units of UnitMs after
\* the epoch (2025), and MaxDrift units more at most while the model runs.
MinClock == 1640
MaxDrift == 2

\* The largest value of a 32-bit signed INTEGER column
INTEGER_MAX == 2147483647

\* DataTypes.INTEGER is INTEGER in every dialect.  SQLite keeps up to 64 bits in such a
\* column ("wide"); PostgreSQL, MySQL and MariaDB in strict mode, and SQL Server
\* reject a value beyond 32 bits ("strict"); MySQL and MariaDB outside strict mode
\* store the nearest value the column can hold ("clamping").
Dialects == {"wide", "strict", "clamping"}

Clocks == MinClock..(MinClock + MaxDrift)

\* A whole number of units as a timestamp
Stamp(units) == <<units, 0>>

\* The timestamp is beyond INTEGER_MAX milliseconds.
BeyondInteger(ts) ==
  \/ ts[1] > INTEGER_MAX \div UnitMs
  \/ ts[1] = INTEGER_MAX \div UnitMs /\ ts[2] > INTEGER_MAX % UnitMs

\* What the endAt column holds after the value was written, where it is written.
ColumnValue(d, ts) ==
  IF d = "clamping" /\ BeyondInteger(ts)
  THEN <<INTEGER_MAX \div UnitMs, INTEGER_MAX % UnitMs>>
  ELSE ts

\* The database rejects the statement.
OutOfRange(d, ts) == d = "strict" /\ BeyondInteger(ts)

\* The host has made a Sequelize instance for some database; the table is empty.
SqlInit ==
  /\ dialect \in Dialects
  /\ clock \in Clocks
  /\ sqlData = None /\ row = None /\ readBack = None
  /\ rejected = FALSE /\ sqlPc = "idle"
  /\ LifecycleIdle
  /\ DrawIdle
  /\ EntryIdle
  /\ StorageIdle
  /\ GateIdle

\* start, lines 188-198 and 211: endAt = Date.now() + duration, and adapter.save
sqlStart(duration) ==
  /\ sqlPc = "idle"
  /\ sqlData' = [ended |-> FALSE, endAt |-> Stamp(clock + duration)]
  /\ sqlPc' = "upsert"
  /\ UNCHANGED <<dialect, clock, row, readBack, rejected>>
  /\ UNCHANGED <<lifecycleVars, drawVars, entryVars, storageVars, gateVars>>

\* SequelizeAdapter.save, lines 89-100: model.upsert resolves, or rejects
sqlUpsert ==
  /\ sqlPc = "upsert"
  /\ IF OutOfRange(dialect, sqlData.endAt)
     THEN /\ rejected' = TRUE
          /\ UNCHANGED row
     ELSE /\ rejected' = FALSE
          /\ row' = [ended |-> sqlData.ended, endAt |-> ColumnValue(dialect, sqlData.endAt)]
  /\ sqlPc' = "ready"
  /\ UNCHANGED <<dialect, clock, sqlData, readBack>>
  /\ UNCHANGED <<lifecycleVars, drawVars, entryVars, storageVars, gateVars>>

\* SequelizeAdapter.get, lines 109-113: findByPk
sqlGet ==
  /\ sqlPc = "ready"
  /\ readBack' = row
  /\ UNCHANGED <<dialect, clock, sqlData, row, rejected, sqlPc>>
  /\ UNCHANGED <<lifecycleVars, drawVars, entryVars, storageVars, gateVars>>

\* end, lines 278 and 285: the record is saved again with ended = true
sqlEnd ==
  /\ sqlPc = "ready" /\ ~sqlData.ended
  /\ sqlData' = [sqlData EXCEPT !.ended = TRUE]
  /\ sqlPc' = "upsert"
  /\ UNCHANGED <<dialect, clock, row, readBack, rejected>>
  /\ UNCHANGED <<lifecycleVars, drawVars, entryVars, storageVars, gateVars>>

\* Time passes.
sqlTick ==
  /\ clock < MinClock + MaxDrift
  /\ clock' = clock + 1
  /\ UNCHANGED <<dialect, sqlData, row, readBack, rejected, sqlPc>>
  /\ UNCHANGED <<lifecycleVars, drawVars, entryVars, storageVars, gateVars>>

SqlNext ==
  \/ \E duration \in Durations : sqlStart(duration)
  \/ sqlUpsert
  \/ sqlGet
  \/ sqlEnd
  \/ sqlTick

SqlSpec == SqlInit /\ [][SqlNext]_vars

\* ================================================================ claims

Ended(i) == store[i] # None /\ store[i].ended

\* ---------------------------------------------------------------- C1
\* C1: for every giveaway id, whatever the interleaving of a countdown-fired end, manual
\* end calls and reroll calls, the giveaway is finalized at most once: winners are
\* drawn at most once, and at most one giveawayEnded or giveawayRerolled event is
\* published in total.
C1_FinalizedAtMostOnce ==
  \A i \in Ids : drawn[i] <= 1 /\ finals[i] <= 1

\* ---------------------------------------------------------------- C2
\* C2: once the stored record of a giveaway has ended = true, no step of any operation
\* writes it back to storage with ended = false (or removes it).
C2_EndedIsTerminal ==
  [][\A i \in Ids : Ended(i) => (store'[i] # None /\ store'[i].ended)]_vars

\* ---------------------------------------------------------------- C3
\* C3: an end(id) that finds the record absent or already ended (as a second end does
\* once a first end has run to completion) is a no-op: the step in which its
\* adapter.get resolves ends the call, and publishes no event, saves nothing, does not
\* edit the announcement, draws no winners and leaves countdowns and collectors alone.
C3_SecondEndIsNoOp ==
  [][\A t \in Running :
       ( /\ t.kind = "end" /\ t.pc = "get"
         /\ (store[t.id] = None \/ store[t.id].ended)
         /\ CopiesIn(t, tasks') < CopiesIn(t, tasks) )
       => /\ tasks' = Finish(t)
          /\ emitted' = None
          /\ UNCHANGED <<store, announce, finals, drawn, timers, timeouts,
                         liveCollectors, collectors>>]_vars

\* C3's case: a first end has finalized the giveaway and run to completion, nothing else
\* is in flight, and the operator has called end again.
C3_Witness ==
  \E t \in Running :
    /\ t.kind = "end" /\ t.pc = "get" /\ ~t.timed
    /\ Ended(t.id) /\ finals[t.id] = 1
    /\ BagCardinality(tasks) = 1

\* ---------------------------------------------------------------- C4
Finalized(i) == Ended(i) /\ finals[i] >= 1

\* C4: restart recovery.  Every record that is in storage with ended = false when the
\* engine is constructed is, after the constructor's restoreTimeouts(), eventually
\* finalized (stored ended = true and its event published), and finalized exactly
\* once.  (Stated for a channel that still exists and for as long as the operator calls
\* nothing: the recovery is the engine's own.)
C4_RestartRecovery ==
  \A i \in Ids :
    /\ (channelOk /\ Active(i)) => <>(Finalized(i) \/ calls > 0)
    /\ [](calls = 0 => finals[i] <= 1)

\* ---------------------------------------------------------------- C5
\* C5: in every reachable state each record that has not ended has at most one armed
\* countdown and at most one live reaction collector.
C5_NoDuplicateCountdownOrCollector ==
  \A i \in Ids : Active(i) => Len(timers[i]) <= 1 /\ liveCollectors[i] <= 1

\* ---------------------------------------------------------------- C6
Started(i) ==
  /\ emitted # None
  /\ emitted.kind = "giveawayStarted" /\ emitted.id = i /\ ~emitted.threw

\* C6: every giveaway created by a successful start is eventually finalized without
\* operator action (here: unless the operator makes another call): the stored record
\* becomes ended = true and its event is published.
C6_StartedIsEventuallyFinalized ==
  \A i \in Ids :
    [](Started(i) /\ calls = 1 => <>(Finalized(i) \/ calls > 1))

\* ---------------------------------------------------------------- C7
\* C7: a finalization that a countdown triggered (an end() called by a timer armed by
\* start or restoreTimeouts, or called at once by setTimeoutForGiveaway) never runs at a
\* time earlier than the record's endAt.
C7_CountdownNotBeforeEndAt ==
  \A t \in Running :
    (t.kind = "end" /\ t.timed /\ t.g # None) => now >= t.g.endAt

\* ---------------------------------------------------------------- C8
\* C8: when end(id) has completed on an active giveaway (its record is stored with
\* ended = true), no armed countdown and no live reaction collector remains for id.
C8_EndLeavesNoCountdownOrCollector ==
  \A i \in Ids :
    Finalized(i) => timers[i] = <<>> /\ liveCollectors[i] = 0

\* ---------------------------------------------------------------- C9
\* C9: an event is published only after the record's new state was saved: the record
\* in storage is the one the event carries; in particular no giveawayEnded or
\* giveawayRerolled event is published while the stored ended flag is false.
C9_SavedBeforePublished ==
  emitted # None => store[emitted.id] = emitted.g

\* ---------------------------------------------------------------- C10
\* C10: a subscriber that throws does not abort the operation that published the
\* event: after a giveawayEnded or giveawayRerolled listener threw, end still has its
\* adapter.save under way, and after a giveawayStarted listener threw, start has still
\* called setReactionCollector.
C10_ThrowingSubscriberDoesNotAbort ==
  (emitted # None /\ emitted.threw) =>
    /\ emitted.kind \in {"giveawayEnded", "giveawayRerolled"} =>
         \E t \in Running : t.kind = "end" /\ t.id = emitted.id /\ t.pc = "save"
    /\ emitted.kind = "giveawayStarted" =>
         \E t \in Running : t.kind = "collector" /\ t.id = emitted.id

C12_StartFailsCleanly ==
  [][\A t \in Running :
       ( /\ t.kind = "start" /\ t.pc = "post" /\ ~channelOk
         /\ CopiesIn(t, tasks') < CopiesIn(t, tasks) )
       => /\ raised' = ChannelError
          /\ tasks' = Finish(t)
          /\ emitted' = None
          /\ UNCHANGED <<store, announce, timers, timeouts, liveCollectors,
                         collectors>>]_vars

\* C12's case: nothing was in storage, the channel does not resolve, and a start has
\* failed with the channel error.
C12_Witness ==
  /\ ~channelOk /\ raised = ChannelError /\ calls >= 1
  /\ \A i \in Ids : store[i] = None /\ timers[i] = <<>> /\ liveCollectors[i] = 0
  /\ BagCardinality(tasks) = 0

\* ---------------------------------------------------------------- C13
Range(l) == {l[k] : k \in 1..Len(l)}

Least(a, b) == IF a < b THEN a ELSE b

\* C13: for every pool of distinct entrant ids and every requested count k >= 1,
\* pickWinners returns exactly min(k, size of the pool) ids, all of them in the pool and
\* no two the same; the whole pool when k is at least its size, and nothing when the
\* pool is empty.
C13_PickWinners ==
  (drawPc \in {"emit", "done"} /\ winnerCount >= 1) =>
    /\ Len(winners) = Least(winnerCount, Len(entries))
    /\ Range(winners) \subseteq Range(entries)
    /\ \A a, b \in 1..Len(winners) : winners[a] = winners[b] => a = b
    /\ winnerCount >= Len(entries) => Range(winners) = Range(entries)
    /\ entries = <<>> => winners = <<>>

\* C13's case: winners were picked from a pool that is larger than the count asked for.
C13_Witness ==
  /\ drawPc = "emit" /\ winnerCount = 2
  /\ Len(entries) = 3 /\ Len(winners) = 2 /\ winners[1] # entries[1]

\* ---------------------------------------------------------------- C15
IsBot(id) == \E u \in Accounts : u.id = id /\ u.bot

\* C15: when botsCanWin is false, no id of the winner list that the event carries is
\* that of a bot account, whoever reacted.
C15_BotsOnlyWinWhenAllowed ==
  (drawPc = "done" /\ ~botsCanWin) => \A k \in 1..Len(announced) : ~IsBot(announced[k])

\* C15's case: a bot reacted first, bots cannot win, and winners were published.
C15_Witness ==
  /\ drawPc = "done" /\ ~botsCanWin
  /\ reactors.found /\ Len(reactors.users) = 3 /\ reactors.users[1].bot
  /\ Len(announced) = 2

\* ---------------------------------------------------------------- C14
\* The checks of a requirement set, each by itself.  A threshold is configured when it
\* is set and is not 0, the value the code takes for "no threshold".
RolesFails(e, req) ==
  req.requiredRoles.set /\ \E r \in req.requiredRoles.value : r \notin e.roles

AccountFails(e, req) ==
  /\ req.accountAgeMin.set /\ req.accountAgeMin.value # 0
  /\ e.created > req.accountAgeMin.value

MemberFails(e, req) ==
  /\ req.joinedServerBefore.set /\ req.joinedServerBefore.value # 0
  /\ (~e.joined.set \/ e.joined.value > req.joinedServerBefore.value)

CustomFails(req) ==
  req.custom.set /\ req.custom.value # Rejects /\ ~req.custom.value.passed

Handled(n) == n \in 1..reactions /\ \A h \in Handling : h.n # n

\* C16: for every entry reaction whose handling is over, exactly one reactionAdded
\* was published, followed by exactly one outcome: requirementsPassed if the checks
\* passed, requirementsFailed if they failed; and on every failure the reaction was
\* removed and one rejection notice was posted.
C16_OneOutcomePerReaction ==
  \A n \in 1..reactions :
    Handled(n) =>
      IF verdict[n].done /\ verdict[n].passed
      THEN published[n] = <<"reactionAdded", "requirementsPassed">>
      ELSE /\ published[n] = <<"reactionAdded", "requirementsFailed">>
           /\ removed[n]
           /\ notices[n] = 1

\* ---------------------------------------------------------------- C17
\* C17: an edit whose adapter.get finds the record absent or already ended fails with
\* the not-found error in that step and changes nothing: the announcement is not
\* edited, nothing is written to storage and no giveawayEdited event is published.
C17_EditOfEndedFails ==
  [][\A t \in Running :
       ( /\ t.kind = "edit" /\ t.pc = "get"
         /\ (store[t.id] = None \/ store[t.id].ended)
         /\ CopiesIn(t, tasks') < CopiesIn(t, tasks) )
       => /\ raised' = NotFoundError
          /\ tasks' = Finish(t)
          /\ emitted' = None
          /\ UNCHANGED <<store, announce, finals, drawn, timers, timeouts,
                         liveCollectors, collectors>>]_vars

\* C17's case: a giveaway has been finalized by a call of this run, and an edit of it
\* has failed with the not-found error.
C17_Witness ==
  /\ raised = NotFoundError
  /\ \E i \in Ids : Finalized(i)

\* ---------------------------------------------------------------- C18
\* C18: a stored record is never removed and its messageId and endAt never change
\* (giveawayId is the key it is stored under); and the step in which an edit writes
\* changes nothing of the stored record but the fields it takes from the options.
C18_EditFrame ==
  /\ [][\A i \in Ids :
          store[i] # None =>
            /\ store'[i] # None
            /\ store'[i].messageId = store[i].messageId
            /\ store'[i].endAt = store[i].endAt]_vars
  /\ [][\A t \in Running :
          ( /\ t.kind = "edit" /\ t.pc = "save"
            /\ CopiesIn(t, tasks') < CopiesIn(t, tasks) )
          => store'[t.id] = [store[t.id] EXCEPT !.prize = t.prize]]_vars

\* ---------------------------------------------------------------- C19
\* C19: a reroll whose adapter.get finds the record absent or already ended ends there
\* and changes nothing; and when the end(id, true) that reroll delegates to publishes,
\* the event is giveawayRerolled and it is the only finalization event of that giveaway
\* (no giveawayEnded and no other giveawayRerolled came before it), and no countdown
\* and no collector is left.
C19_Reroll ==
  /\ [][\A t \in Running :
          ( /\ t.kind = "reroll" /\ t.pc = "get"
            /\ (store[t.id] = None \/ store[t.id].ended)
            /\ CopiesIn(t, tasks') < CopiesIn(t, tasks) )
          => /\ tasks' = Finish(t)
             /\ emitted' = None
             /\ UNCHANGED <<store, announce, finals, drawn, timers, timeouts,
                            liveCollectors, collectors>>]_vars
  /\ [][\A t \in Running :
          ( /\ t.kind = "end" /\ ViaReroll(t) /\ t.pc = "edit"
            /\ CopiesIn(t, tasks') < CopiesIn(t, tasks) )
          => /\ emitted'.kind = "giveawayRerolled"
             /\ finals[t.id] = 0
             /\ timers'[t.id] = <<>>
             /\ liveCollectors'[t.id] = 0]_vars

\* ---------------------------------------------------------------- C20
\* C20: reroll does not end the giveaway permanently: when the end(id, true) that
\* reroll delegates to has saved, the stored record is not ended, so that a further
\* reroll or end draws winners again.
C20_RerollDoesNotEnd ==
  [][\A t \in Running :
       ( /\ t.kind = "end" /\ ViaReroll(t) /\ t.pc = "save"
         /\ CopiesIn(t, tasks') < CopiesIn(t, tasks) )
       => ~store'[t.id].ended]_vars

\* ---------------------------------------------------------------- C21

\* The records the file holds
RecordsOf(f) == IF f.exists THEN Parse(f.text) ELSE <<>>

\* The adapter call c takes the step.
AdapterSteps(c) == CopiesIn(c, adapterCalls') < CopiesIn(c, adapterCalls)

\* C21: the id start assigns is the id of no record in storage: when the save made by
\* start writes its record, the file holds no record under that id, so that no record
\* is replaced.
C21_StartIdIsNew ==
  [][\A c \in CallsInFlight :
        (c.by = "start" /\ c.phase = "save" /\ c.pc = "body" /\ AdapterSteps(c))
        => Find(RecordsOf(file), c.data.giveawayId) = None]_vars

\* ---------------------------------------------------------------- C22

\* C22: a record saved before the process is started again is returned by get, from
\* the new adapter on the same file, equal in every field, every member of its
\* requirements included.
C22_JSONRoundTrip ==
  [][\A c \in CallsInFlight :
        ( /\ c.phase = "get" /\ c.pc = "body" /\ AdapterSteps(c)
          /\ restarted /\ ~overlapped /\ saved[c.id] # None )
        => returned'.value = saved[c.id]]_vars

\* ---------------------------------------------------------------- C23

\* How many records of the list have the id
RecordsUnder(l, id) == Cardinality({n \in 1..Len(l) : l[n].giveawayId = id})

\* The id whose record the body of a save or of a delete writes
Written(c) == IF c.phase = "save" THEN c.data.giveawayId ELSE c.id

\* C23: with the adapter calls run one after another, the file holds at most one
\* record per giveawayId; get(id) returns the record last saved under id, or null if
\* there is none or it was deleted since; and a save or delete leaves the records of
\* the other ids as they were.
C23_OneRecordPerId ==
  /\ [](~overlapped => \A k \in Keys : RecordsUnder(RecordsOf(file), k) <= 1)
  /\ [][\A c \in CallsInFlight :
          (c.phase = "get" /\ c.pc = "body" /\ AdapterSteps(c) /\ ~overlapped)
          => returned'.value = saved[c.id]]_vars
  /\ [][\A c \in CallsInFlight :
          ( /\ c.phase \in {"save", "delete"} /\ c.pc = "body" /\ AdapterSteps(c)
            /\ ~overlapped )
          => \A k \in Keys \ {Written(c)} :
               Find(RecordsOf(file'), k) = Find(RecordsOf(file), k)]_vars

\* ---------------------------------------------------------------- C24

\* C24: every winner of a giveaway with a requirement set is an entrant whom
\* checkRequirements validated and passed; an entrant whose validation failed or never
\* ran is not drawn.
C24_WinnersPassedValidation ==
  persisted.requirements.given =>
    \A k \in 1..Len(winners) :
      /\ winners[k] \in 1..reactions
      /\ verdict[winners[k]].done
      /\ verdict[winners[k]].passed

\* ---------------------------------------------------------------- C26

\* The outcome event of reaction n is published in this step.
OutcomePublished(n) ==
  /\ Len(published'[n]) > Len(published[n])
  /\ published'[n][Len(published'[n])] \in {"requirementsPassed", "requirementsFailed"}

\* C26: the handling of one reaction is over before the handling of the next one
\* begins, and the outcome events are published in the order in which the reactions
\* arrived.
C26_ValidationsDoNotOverlap ==
  /\ [](BagCardinality(handlers) <= 1)
  /\ [][\A n \in 1..reactions :
          OutcomePublished(n) => \A h \in Handling : h.n >= n]_vars

\* ---------------------------------------------------------------- C27

\* C27: for a reaction whose custom predicate was running when end finalized the
\* giveaway, nothing is done with the predicate's result: no event is published, the
\* reaction is not removed and no notice is posted.
C27_ResultAfterEndIsDiscarded ==
  [][\A n \in caught :
        /\ published'[n] = published[n]
        /\ removed'[n] = removed[n]
        /\ notices'[n] = notices[n]]_vars

\* ---------------------------------------------------------------- C28

Validated(e, req) ==
  IF BeforeCustom(e, req).done THEN BeforeCustom(e, req)
  ELSE IF ~TruthyObject(req.custom) THEN Passed
  ELSE IF req.custom.value = Rejects THEN NoVerdict
  ELSE AfterCustom(req.custom.value)

\* C29: a reaction collected after an edit stored new requirements is validated
\* against the stored requirements, and its events carry the stored record.
C29_EditReachesCollector ==
  \A n \in afterEdit :
    /\ carried[n] = persisted.requirements
    /\ verdict[n].done => verdict[n] = Validated(entrant, persisted.requirements)

\* ---------------------------------------------------------------- C25

\* restoreTimeouts, called by the constructor, has not finished.
Restoring == \E t \in Running : t.kind = "restore"

\* C25: once the engine runs (restoreTimeouts has finished), every stored record with
\* ended = false has an armed countdown or a call of end in progress.
C25_ActiveIsScheduled ==
  \A i \in Ids :
    (Active(i) /\ ~Restoring) =>
      \/ timers[i] # <<>>
      \/ \E t \in Running : t.kind = "end" /\ t.id = i

\* ---------------------------------------------------------------- C30

\* C30: a call of edit on a stored record that has not ended either fails with an
\* error or has, when it returns, shown the new announcement, stored the merged record
\* and published one giveawayEdited with the prior and the new record.
C30_EditPersistsOrFails ==
  [][\A t \in Running :
        ( /\ t.kind = "edit" /\ t.pc # "get"
          /\ tasks' = Finish(t)
          /\ raised' = NoError )
        => /\ announce'[t.id] = Shown(t.prize, FALSE)
           /\ store'[t.id] = EditedRecord(t.g, t.prize)
           /\ emitted' # None
           /\ emitted'.kind = "giveawayEdited"
           /\ emitted'.id = t.id
           /\ emitted'.g = EditedRecord(t.g, t.prize)]_vars

\* ---------------------------------------------------------------- C31

\* C31: when the custom predicate rejects for one reaction, no requirementsPassed and
\* no requirementsFailed is published for that reaction, and the engine goes on
\* running, so that later reactions are still validated and the countdown still
\* finalizes the giveaway.
C31_RejectionIsConfined ==
  \A n \in unhandled :
    /\ published[n] = <<"reactionAdded">>
    /\ ~exited

\* ---------------------------------------------------------------- C32

\* C32: the step of restoreTimeouts that goes through the stored records does nothing
\* for a record with ended = true: no countdown is armed and no call of end is made
\* for it, no collector is set up, the announcement and the stored record stay as
\* they are, and no event is published.
C32_RestoreSkipsEnded ==
  [][(\E t \in Running : /\ t.kind = "restore" /\ t.pc = "getAll"
                         /\ CopiesIn(t, tasks') < CopiesIn(t, tasks))
       => \A i \in Ids :
            (store[i] # None /\ store[i].ended)
              => /\ timers'[i] = timers[i]
                 /\ timeouts'[i] = timeouts[i]
                 /\ liveCollectors'[i] = liveCollectors[i]
                 /\ collectors'[i] = collectors[i]
                 /\ \A u \in BagToSet(tasks') :
                      u.id = i => CopiesIn(u, tasks') <= CopiesIn(u, tasks)
                 /\ announce'[i] = announce[i]
                 /\ store'[i] = store[i]
                 /\ emitted' = None]_vars

\* C32's case: restoreTimeouts has gone through a store that holds an ended record,
\* before any call of the API.
C32_Witness ==
  /\ ~Restoring /\ calls = 0
  /\ \E i \in Ids : store[i] # None /\ store[i].ended /\ finals[i] = 0

\* ---------------------------------------------------------------- C33

\* C33: with adapter calls overlapping at their awaits, and no caller deleting a
\* record, a get or getAll never finds the record absent that was in the file from
\* the beginning (whatever edit is running on it), and once all calls have returned
\* the file holds, under every id, the record that the last finished save stored.
C33_AdapterCallsAreAtomic ==
  /\ (returned.op = "get" /\ returned.id = KeptRecord.giveawayId)
       => returned.value # None
  /\ returned.op = "getAll" => Find(returned.value, KeptRecord.giveawayId) # None
  /\ adapterCalls = EmptyBag
       => \A k \in Keys :
            saved[k] # None => Find(RecordsOf(file), k) = StringifyRecord(saved[k])

\* ---------------------------------------------------------------- C34

\* C34: the account that posted the announcement and added the first entry reaction
\* is not in the winner list that the event carries, with either setting of
\* botsCanWin.
C34_ClientNeverWins ==
  drawPc = "done" => \A k \in 1..Len(announced) : announced[k] # ClientUser.id

\* ---------------------------------------------------------------- C35

\* C35: whenever checkRequirements returns passed = false, the reason it returns is
\* not the empty string, whatever the requirement set and the entrant.
C35_FailureHasReason ==
  \A n \in 1..reactions :
    (verdict[n].done /\ ~verdict[n].passed) => verdict[n].reason # ""

\* ---------------------------------------------------------------- C36

\* C36: with joinedServerBefore = T in the requirement set (T other than 0, which is
\* taken as no threshold), an entrant whom the role and account checks let through
\* gets past the membership check if the join timestamp is known and earlier than T,
\* and is otherwise (equal, later, unknown) rejected with the membership reason.
C36_JoinedStrictlyBefore ==
  \A n \in 1..reactions :
    (/\ verdict[n].done
     /\ requirements.given /\ requirements.joinedServerBefore.set
     /\ requirements.joinedServerBefore.value # 0
     /\ ~RolesFails(entrant, requirements) /\ ~AccountFails(entrant, requirements))
      => IF entrant.joined.set
            /\ entrant.joined.value < requirements.joinedServerBefore.value
         THEN verdict[n] # Failed(MemberReason)
         ELSE verdict[n] = Failed(MemberReason)

\* ---------------------------------------------------------------- C37

C38_EmptyPoolIsFinalized ==
  (drawPc = "done" /\ entries = <<>>) =>
    /\ mention = "no_winners"
    /\ announced = <<>>
    /\ endedSaved

\* ---------------------------------------------------------------- C39

\* C39: once start has saved the record through the Sequelize adapter, the save has
\* not been rejected, and the endAt that a get reads back is the endAt that start
\* computed.
C39_EndAtRoundTrips ==
  sqlPc = "ready" =>
    /\ ~rejected
    /\ readBack # None => readBack.endAt = sqlData.endAt

\* ---------------------------------------------------------------- C40

\* C40: whatever the remaining time, a countdown that setTimeoutForGiveaway has armed
\* is due at the record's endAt or later, never before it.
C40_DelayIsNotShortened ==
  \A i \in Ids :
    \A k \in 1..Len(timers[i]) :
      store[i] # None /\ timers[i][k] >= store[i].endAt


====
